---- MODULE Spec2Model ----
(***************************************************************************)
(* A model of swing-o-matic's projection engine and table builders         *)
(* (src/src/calculations.py) and of the Dash callback update_results       *)
(* (src/app.py): the margin shifts it derives from the sliders, the        *)
(* winners and electoral-college totals it derives from the engine's       *)
(* output, and its national popular-vote projection.                       *)
(*                                                                         *)
(* Python floats are modelled as exact rationals <<n, d>> (d > 0, lowest   *)
(* terms): every statement below is about the arithmetic the code writes   *)
(* down, not about IEEE-754 rounding.                                      *)
(***************************************************************************)
EXTENDS Integers, Sequences, FiniteSets, TLC

VARIABLES
    heap,       \* the DataFrame objects: "df_states" (the caller's table) and "df" (the engine's copy)
    baseline,   \* the caller's table as it was built, never assigned after Init
    ret,        \* the reference apply_generic_swing returned last ("none" before any call)
    args,       \* the arguments of the last apply_generic_swing call
    noted,      \* the arguments and the output of some earlier call
    probe,      \* the last row handed to the winner functions, with their answers
    original_margins,   \* the exit poll's margin per group, in points (load_exit_poll_data)
    df_national,        \* the one-row national table (construct_national_df)
    ui,         \* the outputs of the last update_results callback
    built       \* the files last handed to a table builder, and what it did

vars == <<heap, baseline, ret, args, noted, probe, original_margins, df_national, ui,
          built>>

(***************************************************************************)
(* Exact rational arithmetic.                                              *)
(***************************************************************************)
Abs(i) == IF i < 0 THEN -i ELSE i

RECURSIVE Gcd(_, _)
Gcd(a, b) == IF b = 0 THEN a ELSE Gcd(b, a % b)

\* n/d in lowest terms with a positive denominator (d # 0)
Q(n, d) ==
    LET s == IF d < 0 THEN -1 ELSE 1
        g == Gcd(Abs(n), Abs(d))
    IN  <<(s * n) \div g, (s * d) \div g>>

Zero == <<0, 1>>
One == <<1, 1>>
Two == <<2, 1>>
Half == <<1, 2>>

Add(x, y) == Q(x[1] * y[2] + y[1] * x[2], x[2] * y[2])
Sub(x, y) == Q(x[1] * y[2] - y[1] * x[2], x[2] * y[2])
Mul(x, y) == Q(x[1] * y[1], x[2] * y[2])
Div(x, y) == Q(x[1] * y[2], x[2] * y[1])
Neg(x) == <<-x[1], x[2]>>
Lt(x, y) == x[1] * y[2] < y[1] * x[2]
Le(x, y) == x[1] * y[2] <= y[1] * x[2]
Gt(x, y) == Lt(y, x)

\* Python's max(a, b, c): the first of the largest
Max3(a, b, c) ==
    LET ab == IF Gt(b, a) THEN b ELSE a
    IN  IF Gt(c, ab) THEN c ELSE ab

(***************************************************************************)
(* Columns. A row is a function from column names to values; a table       *)
(* (DataFrame) is a sequence of rows over the same columns.                *)
(***************************************************************************)
\* the six groups the dashboard moves
G == {"WhiteNonCollegeShare", "WhiteCollegeShare", "BlackShare",
      "HispanicShare", "AsianShare", "OtherShare"}

\* the canonical columns of construct_df_states, in keep_cols order
keep_cols ==
    <<"State",
      "WhiteCollegeShare", "WhiteNonCollegeShare",
      "BlackShare", "HispanicShare", "AsianShare", "OtherShare",
      "MaleShare", "FemaleShare",
      "Age18_24Share", "Age25_29Share", "Age30_39Share", "Age40_49Share",
      "Age50_64Share", "Age65PlusShare",
      "Under15kShare", "k15_30Share", "k30_50Share", "k50_75Share", "k75_100Share",
      "k100_150Share", "k150_200Share", "Over200kShare",
      "VetShare", "NotVetShare",
      "BaselineObama", "BaselineMcCain", "BaselineThird",
      "EV", "MARGIN", "TURNOUT">>

\* c.endswith("Share"), over the column names a table can carry
EndsWithShare(c) ==
    c \in G \cup {"MaleShare", "FemaleShare",
                  "Age18_24Share", "Age25_29Share", "Age30_39Share", "Age40_49Share",
                  "Age50_64Share", "Age65PlusShare",
                  "Under15kShare", "k15_30Share", "k30_50Share", "k50_75Share",
                  "k75_100Share", "k100_150Share", "k150_200Share", "Over200kShare",
                  "VetShare", "NotVetShare"}

\* group_cols: the columns of a row that end in "Share", in column order
group_cols(row) ==
    SelectSeq(keep_cols, LAMBDA c : c \in DOMAIN row /\ EndsWithShare(c))

\* dict.get(key, default)
Get(d, k, default) == IF k \in DOMAIN d THEN d[k] ELSE default

RECURSIVE SumOver(_, _, _)
\* the running sum over a column list of f(c)
SumOver(cols, f(_), acc) ==
    IF cols = <<>> THEN acc
    ELSE SumOver(Tail(cols), f, Add(acc, f(Head(cols))))

(***************************************************************************)
(* apply_generic_swing, one row at a time. The code works column by column *)
(* over the whole table, but every step reads and writes one row only, so  *)
(* the table's result is the per-row result in each position.              *)
(***************************************************************************)
\* the shift added to the share instead of scaling it
ShiftedShare_Additive(base_val, t_shift) ==
    LET new_val == Add(base_val, t_shift)
    IN  IF Gt(new_val, One) THEN One ELSE new_val

\* step 1, lines 63-66: the shifted share of one group, capped at 1.0
ShiftedShare(base_val, t_shift) ==
    LET new_val == Mul(base_val, Add(One, t_shift))
    IN  IF Gt(new_val, One) THEN One ELSE new_val

\* the re-normalisation applied only to rows that grew past 1
ShouldNormalize_OnlyAboveOne(row_sum) == Gt(row_sum, One)

\* step 1, lines 70-76: the test that decides whether the row is re-normalised
ShouldNormalize(row_sum) == Gt(row_sum, Zero)

RECURSIVE SetEach(_, _, _)
\* the row after `df.at[idx, c] = f(c)` for each column of a list in turn
SetEach(row, f(_), cols) ==
    IF cols = <<>> THEN row
    ELSE SetEach((Head(cols) :> f(Head(cols))) @@ row, f, Tail(cols))

\* step 1, lines 57-76: turnout shifts, cap, re-normalisation
TurnoutStep(row, turnout_shifts) ==
    LET cols == group_cols(row)
        Shifted(c) == ShiftedShare(row[c], Get(turnout_shifts, c, Zero))
        shifted == SetEach(row, Shifted, cols)
        NewVal(c) == shifted[c]
        row_sum == SumOver(cols, NewVal, Zero)
        Normalized(c) == Div(shifted[c], row_sum)
    IN  IF ShouldNormalize(row_sum) THEN SetEach(shifted, Normalized, cols) ELSE shifted

\* the margin shifts of a row's groups added up without their shares
PartialShift_Unweighted(row, margin_shifts) ==
    LET Term(c) == Get(margin_shifts, c, Zero)
    IN  SumOver(group_cols(row), Term, Zero)

\* step 3, lines 84-90: the weighted margin shift of a row (after step 1)
PartialShift(row, margin_shifts) ==
    LET Term(c) == Mul(Get(margin_shifts, c, Zero), row[c])
    IN  SumOver(group_cols(row), Term, Zero)

\* Series.clip(lower, upper)
Clip(x, lower, upper) ==
    IF Lt(x, lower) THEN lower ELSE IF Gt(x, upper) THEN upper ELSE x

\* the margin divided by 100, as the comment above line 102 announces
MarginFrac_PointsToFraction(new_margin) == Div(new_margin, <<100, 1>>)

\* line 102: the margin "converted" to a fraction
MarginFrac(new_margin) == new_margin

\* steps 2-5, lines 79-108
MarginStep(row, margin_shifts, max_margin_points) ==
    LET BaselineMargin == Sub(row["BaselineObama"], row["BaselineMcCain"])
        TwoPartySum == Add(row["BaselineObama"], row["BaselineMcCain"])
        MarginShift == PartialShift(row, margin_shifts)
        NewMargin == Clip(Add(BaselineMargin, MarginShift),
                          Neg(max_margin_points), max_margin_points)
        frac == MarginFrac(NewMargin)
    IN  ("BaselineMargin" :> BaselineMargin) @@ ("TwoPartySum" :> TwoPartySum)
        @@ ("MarginShift" :> MarginShift) @@ ("NewMargin" :> NewMargin)
        @@ ("MarginFrac" :> frac)
        @@ ("Obama2p" :> Div(Add(TwoPartySum, frac), Two))
        @@ ("McCain2p" :> Div(Sub(TwoPartySum, frac), Two))
        @@ row

\* `if third_party_shifts:` None and the empty dict are both false
\* (None is modelled as the empty map)
Truthy(d) == DOMAIN d # {}

\* step 6, lines 121-133: the third-party change of a row
PartialTpChange(row, third_party_shifts) ==
    LET Diff(c) == IF c \in DOMAIN third_party_shifts
                   THEN Mul(Sub(third_party_shifts[c], row["BaselineThird"]), row[c])
                   ELSE Zero
    IN  SumOver(group_cols(row), Diff, Zero)

\* step 6, lines 112-136
ThirdStep(row, third_party_shifts) ==
    IF Truthy(third_party_shifts)
    THEN LET delta == PartialTpChange(row, third_party_shifts)
         IN  ("ThirdPartyDelta" :> delta)
             @@ ("FinalThird" :> Add(row["BaselineThird"], delta)) @@ row
    ELSE ("FinalThird" :> row["BaselineThird"]) @@ row

\* lines 173-176: the third-party share clamped to [0, 1]
ClampThird(t_base) ==
    IF Lt(t_base, Zero) THEN Zero ELSE IF Gt(t_base, One) THEN One ELSE t_base

\* the margin left as it is
ClampMargin_None(margin_frac, new_o_plus_m) == margin_frac

\* lines 183-187: the margin clamped to what the two parties share
ClampMargin(margin_frac, new_o_plus_m) ==
    IF Gt(margin_frac, new_o_plus_m) THEN new_o_plus_m
    ELSE IF Lt(margin_frac, Neg(new_o_plus_m)) THEN Neg(new_o_plus_m)
    ELSE margin_frac

\* the degenerate test made after the third-party share is clamped
Degenerate_AfterClamp(o2p, m2p, t_base) == Le(Add(Add(o2p, m2p), ClampThird(t_base)), Zero)

\* line 155: the degenerate test
Degenerate(o2p, m2p, t_base) == Le(Add(Add(o2p, m2p), t_base), Zero)

\* step 7 with the margin given to the other candidate
FinalShares_MarginReversed(row) ==
    IF Degenerate(row["Obama2p"], row["McCain2p"], row["FinalThird"])
    THEN <<Half, Half, Zero>>
    ELSE LET t_base == ClampThird(row["FinalThird"])
             new_o_plus_m == Sub(One, t_base)
             margin_frac == ClampMargin(row["MarginFrac"], new_o_plus_m)
         IN  <<Div(Sub(new_o_plus_m, margin_frac), Two),
               Div(Add(new_o_plus_m, margin_frac), Two),
               t_base>>

\* the two-party shares of step 5 kept beside the clamped third-party share
FinalShares_NoRescale(row) ==
    IF Degenerate(row["Obama2p"], row["McCain2p"], row["FinalThird"])
    THEN <<Half, Half, Zero>>
    ELSE <<row["Obama2p"], row["McCain2p"], ClampThird(row["FinalThird"])>>

\* step 7, lines 149-195: <<final_obama, final_mccain, final_third>> of a row
FinalShares(row) ==
    IF Degenerate(row["Obama2p"], row["McCain2p"], row["FinalThird"])
    THEN <<Half, Half, Zero>>
    ELSE LET t_base == ClampThird(row["FinalThird"])
             new_o_plus_m == Sub(One, t_base)
             margin_frac == ClampMargin(row["MarginFrac"], new_o_plus_m)
         IN  <<Div(Add(new_o_plus_m, margin_frac), Two),
               Div(Sub(new_o_plus_m, margin_frac), Two),
               t_base>>

\* line 203: np.where(FinalMargin > 0, "Obama", "McCain")
EngineWinner(final_margin) == IF Gt(final_margin, Zero) THEN "Obama" ELSE "McCain"

\* steps 7-8, lines 197-203
FinalStep(row) ==
    LET f == FinalShares(row)
        FinalMargin == Sub(f[1], f[2])
    IN  ("FinalObama" :> f[1]) @@ ("FinalMcCain" :> f[2]) @@ ("FinalThird" :> f[3])
        @@ ("FinalMargin" :> FinalMargin) @@ ("Winner" :> EngineWinner(FinalMargin))
        @@ row

\* the whole engine on one row
SwingRow(row, a) ==
    FinalStep(
        ThirdStep(
            MarginStep(TurnoutStep(row, a.turnout_shifts),
                       a.margin_shifts, a.max_margin_points),
            a.third_party_shifts))

RECURSIVE SwingTable(_, _)
\* the whole engine on a table
SwingTable(table, a) ==
    IF table = <<>> THEN <<>>
    ELSE <<SwingRow(Head(table), a)>> \o SwingTable(Tail(table), a)

(***************************************************************************)
(* The winner functions.                                                   *)
(***************************************************************************)
\* the same comparison with Obama tested first
calculate_winner_ObamaFirst(row) ==
    LET o == row["FinalObama"]
        m == row["FinalMcCain"]
        t == row["FinalThird"]
        maximum == Max3(o, m, t)
    IN  IF maximum = o THEN "Obama"
        ELSE IF maximum = t THEN "ThirdParty"
        ELSE "McCain"

\* lines 426-436: third party first, then Obama, else McCain
calculate_winner(row) ==
    LET o == row["FinalObama"]
        m == row["FinalMcCain"]
        t == row["FinalThird"]
        maximum == Max3(o, m, t)
    IN  IF maximum = t THEN "ThirdParty"
        ELSE IF maximum = o THEN "Obama"
        ELSE "McCain"

\* lines 406-419
check_state_winner(row) ==
    LET obama_share == row["FinalObama"]
        mccain_share == row["FinalMcCain"]
        third_share == row["FinalThird"]
        max_value == Max3(obama_share, mccain_share, third_share)
    IN  IF max_value = third_share THEN "ThirdParty"
        ELSE IF max_value = obama_share THEN "Obama"
        ELSE "McCain"

(***************************************************************************)
(* The inputs explored.                                                    *)
(***************************************************************************)
\* the most rows a table of several rows has
MaxRows == 2

\* <<BaselineObama, BaselineMcCain, BaselineThird>>
Baselines ==
    { <<Q(1, 2), Q(12, 25), Q(1, 50)>>,     \* a narrow Obama lead
      <<Q(1, 2), Q(1, 2), Zero>>,           \* a two-party tie
      <<Q(2, 5), Q(2, 5), Q(1, 10)>>,       \* shares summing to less than 1
      <<Zero, Zero, Zero>>,                 \* nothing at all
      <<One, Zero, Q(1, 2)>>,               \* shares summing to more than 1
      <<Q(1, 5), Q(3, 10), Q(1, 2)>>,       \* a third-party plurality
      <<Q(1, 3), Q(1, 3), Q(1, 3)>>,        \* a three-way tie
      <<Q(9, 20), Q(11, 20), Zero>> }       \* a McCain lead

NoGroups == [g \in G |-> Zero]

ShareVectors ==
    { ("WhiteNonCollegeShare" :> Q(3, 5)) @@ ("BlackShare" :> Q(2, 5)) @@ NoGroups,
      NoGroups,
      ("WhiteNonCollegeShare" :> Q(1, 4)) @@ ("WhiteCollegeShare" :> Q(1, 4))
         @@ ("BlackShare" :> Q(1, 4)) @@ ("HispanicShare" :> Q(1, 8))
         @@ ("AsianShare" :> Q(1, 16)) @@ ("OtherShare" :> Q(1, 16)),
      ("WhiteNonCollegeShare" :> Q(1, 2)) @@ ("BlackShare" :> Q(1, 4)) @@ NoGroups }

\* the sex columns the table builder also keeps
AuxVectors ==
    { ("MaleShare" :> Q(1, 2)) @@ ("FemaleShare" :> Q(1, 2)) @@ sh : sh \in ShareVectors }

MkRow(state, b, sh, ev) ==
    ("State" :> state) @@ ("BaselineObama" :> b[1]) @@ ("BaselineMcCain" :> b[2])
    @@ ("BaselineThird" :> b[3]) @@ ("EV" :> ev) @@ sh

StateName(i) == <<"AL", "AK", "AZ", "AR">>[i]

\* one-row tables over every baseline and every share vector, with and without
\* the sex columns
OneRowTables ==
    { <<MkRow(StateName(1), b, sh, 10)>> : b \in Baselines, sh \in ShareVectors }
    \cup { <<MkRow(StateName(1), b, sh, 10)>> :
              b \in {<<Q(1, 2), Q(12, 25), Q(1, 50)>>, <<Zero, Zero, Zero>>},
              sh \in AuxVectors }

\* the rows that tables of several rows are made of
FewRows ==
    { [b |-> <<Q(1, 2), Q(12, 25), Q(1, 50)>>,
       sh |-> ("WhiteNonCollegeShare" :> Q(3, 5)) @@ ("BlackShare" :> Q(2, 5)) @@ NoGroups,
       ev |-> 10],
      [b |-> <<Q(9, 20), Q(11, 20), Zero>>,
       sh |-> ("WhiteNonCollegeShare" :> Q(1, 2)) @@ ("BlackShare" :> Q(1, 4)) @@ NoGroups,
       ev |-> 15],
      [b |-> <<Q(1, 5), Q(3, 10), Q(1, 2)>>,
       sh |-> ("WhiteNonCollegeShare" :> Q(3, 5)) @@ ("BlackShare" :> Q(2, 5)) @@ NoGroups,
       ev |-> 3] }

\* tables of 2..MaxRows rows
ManyRowTables ==
    UNION { { [i \in 1..n |-> MkRow(StateName(i), f[i].b, f[i].sh, f[i].ev)] :
                f \in [1..n -> FewRows] } : n \in 2..MaxRows }

Tables == OneRowTables \cup ManyRowTables

\* the default of max_margin_points
DefaultMaxMarginPoints == <<100, 1>>

EmptyDict == <<>>

MarginShiftMaps ==
    { EmptyDict,
      [g \in G |-> Zero],
      "BlackShare" :> Q(10, 1),
      "BlackShare" :> Q(1, 10),
      ("WhiteNonCollegeShare" :> Q(-1, 4)) @@ ("BlackShare" :> Q(1, 20)),
      "BlackShare" :> Q(1000, 1),
      "WhiteNonCollegeShare" :> Q(-1000, 1) }

TurnoutShiftMaps ==
    { EmptyDict,
      "BlackShare" :> Q(1, 10),
      "WhiteNonCollegeShare" :> One,
      ("WhiteNonCollegeShare" :> Q(-1, 20)) @@ ("BlackShare" :> Q(1, 2)),
      [g \in G |-> Q(-1, 1)],
      "BlackShare" :> Q(-3, 2),
      [g \in G |-> Q(-2, 1)] }

\* None (modelled as the empty map) or a map
ThirdPartyShiftMaps ==
    { EmptyDict,
      "AsianShare" :> Q(9, 100),
      "BlackShare" :> Zero,
      [g \in G |-> Q(-2, 1)],
      [g \in G |-> Q(2, 1)] }

MkArgs(ms, ts, tps, mmp) ==
    [margin_shifts |-> ms, turnout_shifts |-> ts, third_party_shifts |-> tps,
     max_margin_points |-> mmp]

Args ==
    { MkArgs(ms, ts, tps, mmp) :
        ms \in MarginShiftMaps, ts \in TurnoutShiftMaps, tps \in ThirdPartyShiftMaps,
        mmp \in {DefaultMaxMarginPoints, Q(1, 20)} }

NoShifts == MkArgs(EmptyDict, EmptyDict, EmptyDict, DefaultMaxMarginPoints)

(***************************************************************************)
(* State and operations.                                                   *)
(***************************************************************************)
NotNoted == [set |-> FALSE, args |-> NoShifts, out |-> <<>>, between |-> FALSE, how |-> ""]

NoProbe == [set |-> FALSE, row |-> <<>>, calculate_winner |-> "", check_state_winner |-> ""]

NoUi == [called |-> FALSE, error |-> FALSE, values |-> <<>>, margin_shifts |-> <<>>,
         df |-> <<>>, ec_vote_totals |-> <<>>,
         obama_ec_votes |-> 0, mccain_ec_votes |-> 0,
         obama_pop_vote |-> Zero, mccain_pop_vote |-> Zero, third_party_pop_vote |-> Zero]

\* the national row: the six groups and the sex columns of the national
\* demographics, the baseline of the exit poll's Total row
NationalTables ==
    { <<("State" :> "NATIONAL") @@ ("MaleShare" :> Q(1, 2)) @@ ("FemaleShare" :> Q(1, 2))
        @@ ("BaselineObama" :> Q(53, 100)) @@ ("BaselineMcCain" :> Q(23, 50))
        @@ ("BaselineThird" :> Q(1, 100))
        @@ ("WhiteNonCollegeShare" :> Q(2, 5)) @@ ("WhiteCollegeShare" :> Q(7, 20))
        @@ ("BlackShare" :> Q(1, 8)) @@ ("HispanicShare" :> Q(1, 10))
        @@ ("AsianShare" :> Q(1, 50)) @@ ("OtherShare" :> Q(1, 40))>> }

NoMargins == [g \in G |-> 0]

NotBuilt == [kind |-> "none"]

InitWith(tables, margins, nationals) ==
    /\ baseline \in tables
    /\ heap = [df_states |-> baseline, df |-> <<>>]
    /\ ret = "none"
    /\ args = NoShifts
    /\ noted = NotNoted
    /\ probe = NoProbe
    /\ original_margins \in margins
    /\ df_national \in nationals
    /\ ui = NoUi
    /\ built = NotBuilt

\* df = df_states: a second name for the caller's object
DataFrameCopy_Alias(src) == src

\* line 49, df = df_states.copy(): a new object, named "df"
DataFrameCopy(src) == "df"

\* apply_generic_swing(df_states, ...): the copy is made, every step writes to
\* the copy, and the copy is returned
Invoke(a) ==
    LET df == DataFrameCopy("df_states")
    IN  /\ heap' = [heap EXCEPT ![df] = SwingTable(heap["df_states"], a)]
        /\ ret' = df
        /\ args' = a
        /\ UNCHANGED <<baseline, probe, original_margins, df_national, ui, built>>

\* one call of the engine on a freshly built table, with any of the arguments
\* explored; Spec follows a single call per table (repeated calls against the
\* same table are followed in SpecCalls)
SwingOnce ==
    /\ ret = "none"
    /\ \E a \in Args : Invoke(a)
    /\ UNCHANGED noted

Init == InitWith(Tables, {NoMargins}, NationalTables)

Next == SwingOnce

Spec == Init /\ [][Next]_vars

\* the table the last call returned
Out == heap[ret]

Returned == ret # "none"

(***************************************************************************)
(* Repeated calls against the same table (specification SpecCalls).        *)
(***************************************************************************)
FewArgs ==
    { NoShifts,
      MkArgs("BlackShare" :> Q(1, 10), EmptyDict, EmptyDict, DefaultMaxMarginPoints),
      MkArgs(EmptyDict, "BlackShare" :> Q(1, 10), EmptyDict, DefaultMaxMarginPoints),
      MkArgs(EmptyDict, "WhiteNonCollegeShare" :> One, "AsianShare" :> Q(9, 100),
             DefaultMaxMarginPoints),
      MkArgs(EmptyDict, [g \in G |-> Q(-1, 1)], EmptyDict, DefaultMaxMarginPoints),
      MkArgs("BlackShare" :> Q(1000, 1), EmptyDict, [g \in G |-> Q(2, 1)],
             DefaultMaxMarginPoints) }

CallTables ==
    ManyRowTables
    \cup { <<MkRow(StateName(1), f.b, f.sh, f.ev)>> : f \in FewRows }

\* a call of the engine; the observer may note its arguments and output, and
\* records whether a call with other arguments follows a noted one
SwingAgain ==
    \E a \in FewArgs, note \in BOOLEAN :
        /\ Invoke(a)
        /\ noted' = IF note
                    THEN [set |-> TRUE, args |-> a, out |-> heap'[ret'], between |-> FALSE,
                          how |-> "again"]
                    ELSE [noted EXCEPT !.between = @ \/ (noted.set /\ a # noted.args)]

InitCalls == InitWith(CallTables, {NoMargins}, NationalTables)

NextCalls == SwingAgain

SpecCalls == InitCalls /\ [][NextCalls]_vars

(***************************************************************************)
(* Two calls that differ in one argument (specification SpecPairs): a      *)
(* first call, then a call on the same table with one group's margin shift *)
(* raised, or with one turnout shift for every share column, the first     *)
(* call's arguments and output being noted.                                *)
(***************************************************************************)
PairArgs ==
    { NoShifts,
      MkArgs("BlackShare" :> Q(1, 10), EmptyDict, EmptyDict, DefaultMaxMarginPoints),
      MkArgs(("WhiteNonCollegeShare" :> Q(-1, 4)) @@ ("BlackShare" :> Q(1, 20)),
             EmptyDict, "AsianShare" :> Q(9, 100), DefaultMaxMarginPoints),
      MkArgs("BlackShare" :> Q(-1, 2), "WhiteNonCollegeShare" :> One,
             [g \in G |-> Q(2, 1)], DefaultMaxMarginPoints),
      MkArgs("BlackShare" :> Q(1, 10), "BlackShare" :> Q(1, 10), "AsianShare" :> Q(9, 100),
             DefaultMaxMarginPoints),
      MkArgs("WhiteNonCollegeShare" :> Q(-1, 10), "BlackShare" :> Q(-3, 2), EmptyDict,
             DefaultMaxMarginPoints),
      MkArgs("BlackShare" :> Q(1, 50), EmptyDict, [g \in G |-> Q(-2, 1)], Q(1, 20)),
      MkArgs(EmptyDict, [g \in G |-> Q(-1, 1)], "BlackShare" :> Zero, Q(1, 20)) }

\* the tables of SpecCalls and two one-row tables that carry the sex columns
PairTables ==
    CallTables
    \cup { <<MkRow(StateName(1), b, sh, 10)>> :
              b \in {<<Q(1, 2), Q(12, 25), Q(1, 50)>>},
              sh \in { ("MaleShare" :> Q(1, 2)) @@ ("FemaleShare" :> Q(1, 2))
                         @@ ("WhiteNonCollegeShare" :> Q(1, 2)) @@ ("BlackShare" :> Q(1, 4))
                         @@ NoGroups,
                       ("MaleShare" :> Q(1, 2)) @@ ("FemaleShare" :> Q(1, 2)) @@ NoGroups } }

\* by how much a margin shift is raised
Raises == {Q(1, 100), Q(3, 1)}

\* the turnout shifts applied to every share column at once
UniformShifts == {Q(-3, 2), Q(-1, 1), Q(-1, 2), Q(1, 10), One}

\* one turnout shift for every column whose name ends in "Share"
UniformTurnout(t) == [c \in G \cup {"MaleShare", "FemaleShare"} |-> t]

SwingFirst ==
    /\ ret = "none"
    /\ \E a \in PairArgs : Invoke(a)
    /\ UNCHANGED noted

\* the last call again, with the margin shift of one group raised
SwingRaised ==
    /\ Returned
    /\ ~noted.set
    /\ \E g \in G, d \in Raises :
          Invoke([args EXCEPT !.margin_shifts =
                     (g :> Add(Get(args.margin_shifts, g, Zero), d)) @@ args.margin_shifts])
    /\ noted' = [set |-> TRUE, args |-> args, out |-> Out, between |-> FALSE, how |-> "raised"]

\* the last call, made without turnout shifts, again with one turnout shift for
\* every share column
SwingTurnedOut ==
    /\ Returned
    /\ ~noted.set
    /\ args.turnout_shifts = EmptyDict
    /\ \E t \in UniformShifts : Invoke([args EXCEPT !.turnout_shifts = UniformTurnout(t)])
    /\ noted' = [set |-> TRUE, args |-> args, out |-> Out, between |-> FALSE, how |-> "turnout"]

InitPairs == InitWith(PairTables, {NoMargins}, NationalTables)

NextPairs == SwingFirst \/ SwingRaised \/ SwingTurnedOut

SpecPairs == InitPairs /\ [][NextPairs]_vars

(***************************************************************************)
(* The winner functions on their own (specification SpecWinner).           *)
(***************************************************************************)
ProbeShares == {Zero, Q(1, 5), Q(3, 10), Q(1, 3), Q(2, 5), Half}

CheckWinner ==
    \E o \in ProbeShares, m \in ProbeShares, t \in ProbeShares :
        LET row == [FinalObama |-> o, FinalMcCain |-> m, FinalThird |-> t]
        IN  /\ probe' = [set |-> TRUE, row |-> row,
                         calculate_winner |-> calculate_winner(row),
                         check_state_winner |-> check_state_winner(row)]
            /\ UNCHANGED <<heap, baseline, ret, args, noted, original_margins,
                           df_national, ui, built>>

InitWinner == InitWith({<<MkRow(StateName(1), <<Q(1, 2), Q(12, 25), Q(1, 50)>>, NoGroups, 10)>>}, {NoMargins}, NationalTables)

NextWinner == CheckWinner

SpecWinner == InitWinner /\ [][NextWinner]_vars

(***************************************************************************)
(* The callback update_results (specification SpecApp).                    *)
(***************************************************************************)
\* a value arriving from a slider: a number, or None
Num(v) == [kind |-> "num", v |-> v]

NoneValue == [kind |-> "none", v |-> Zero]

\* lines 166-167
sanitize_value(value) == IF value.kind = "num" THEN value.v ELSE Zero

IntQ(i) == <<i, 1>>

\* max(-100, min(100, x)) / divisor, lines 189-194 and 201-206
SliderShift(value, original_margin, divisor) ==
    Div(Clip(Sub(value, IntQ(original_margin)), IntQ(-100), IntQ(100)), divisor)

RECURSIVE WithWinners(_)
\* line 249: df_states["Winner"] = df_states.apply(calculate_winner, axis=1)
WithWinners(df) ==
    IF df = <<>> THEN <<>>
    ELSE <<("Winner" :> calculate_winner(Head(df))) @@ Head(df)>> \o WithWinners(Tail(df))

RECURSIVE SumEV(_, _)
\* the sum of EV over the rows of one Winner group
SumEV(df, w) ==
    IF df = <<>> THEN 0
    ELSE (IF Head(df)["Winner"] = w THEN Head(df)["EV"] ELSE 0) + SumEV(Tail(df), w)

\* the number of rows of every group
EcVoteTotals_CountRows(df) ==
    [w \in {df[i]["Winner"] : i \in 1..Len(df)} |->
        Cardinality({i \in 1..Len(df) : df[i]["Winner"] = w})]

\* line 257: df_states.groupby("Winner")["EV"].sum().to_dict()
EcVoteTotals(df) ==
    [w \in {df[i]["Winner"] : i \in 1..Len(df)} |-> SumEV(df, w)]

\* the group's share taken as its own weight
NationalWeight_Raw(share, total_national_demographic_share) == share

\* lines 217-220: a group's normalised national share
NationalWeight(share, total_national_demographic_share) ==
    Div(share, total_national_demographic_share)

\* lines 200-238: the national popular vote, [error, shares], shares being
\* <<obama, mccain, third>>. A national row whose six shares are all zero makes
\* line 218 divide zero by zero: zero_division says whether that raises (plain
\* floats) or gives NaN (numpy floats). With NaN weights both major shares are
\* NaN at line 229, and max(0.0, min(1.0, NaN)) is 1.0. A zero total_votes is
\* a sum of plain floats 0.0, whose division raises.
PopularVote(sliders, zero_division) ==
    LET national_shares == df_national[1]
        groups == SelectSeq(keep_cols, LAMBDA g : g \in DOMAIN original_margins
                                                  /\ g \in DOMAIN national_shares)
        Share(g) == national_shares[g]
        total_national_demographic_share == SumOver(groups, Share, Zero)
        Adjusted(g) ==
            Clip(Div(SliderShift(sliders[g], original_margins[g], Two), IntQ(100)),
                 Neg(One), One)
        Term(g) == Mul(Adjusted(g),
                       NationalWeight(national_shares[g], total_national_demographic_share))
        nan == total_national_demographic_share = Zero
        delta == IF nan THEN Zero ELSE SumOver(groups, Term, Zero)
        obama == IF nan THEN One
                 ELSE Clip(Add(national_shares["BaselineObama"], delta), Zero, One)
        mccain == IF nan THEN One
                  ELSE Clip(Sub(national_shares["BaselineMcCain"], delta), Zero, One)
        third == Clip(national_shares["BaselineThird"], Zero, One)
        total_votes == Add(Add(obama, mccain), third)
    IN  IF (nan /\ zero_division = "raise") \/ total_votes = Zero
        THEN [error |-> TRUE, shares |-> <<Zero, Zero, Zero>>]
        ELSE [error |-> FALSE,
              shares |-> <<Div(obama, total_votes), Div(mccain, total_votes),
                           Div(third, total_votes)>>]

\* what the sliders can send: an end of the scale, the original margin, or
\* nothing
SliderChoices(g) ==
    CASE g \in {"WhiteNonCollegeShare", "BlackShare"} ->
            {Num(IntQ(-100)), Num(IntQ(original_margins[g])), Num(IntQ(100)), NoneValue}
      [] g = "WhiteCollegeShare" -> {Num(IntQ(original_margins[g])), NoneValue}
      [] g = "HispanicShare" -> {Num(IntQ(original_margins[g])), Num(IntQ(100))}
      [] OTHER -> {Num(IntQ(original_margins[g]))}

\* lines 188-195: the margin shifts handed to the engine
StateMarginShifts(sliders) ==
    ("WhiteNonCollegeShare" :>
        SliderShift(sliders["WhiteNonCollegeShare"], original_margins["WhiteNonCollegeShare"], IntQ(20)))
    @@ ("WhiteCollegeShare" :>
        SliderShift(sliders["WhiteCollegeShare"], original_margins["WhiteCollegeShare"], IntQ(20)))
    @@ ("BlackShare" :>
        SliderShift(sliders["BlackShare"], original_margins["BlackShare"], IntQ(20)))
    @@ ("HispanicShare" :>
        SliderShift(sliders["HispanicShare"], original_margins["HispanicShare"], IntQ(20)))
    @@ ("AsianShare" :>
        SliderShift(sliders["AsianShare"], original_margins["AsianShare"], IntQ(20)))
    @@ ("OtherShare" :>
        SliderShift(sliders["OtherShare"], original_margins["OtherShare"], IntQ(20)))

\* lines 163-271: what the callback computes from the six slider values (the
\* table construct_df_states builds is the one held in heap.df_states; the
\* texts and the map are made from these values)
Results(non_college_white, college_white, black, hispanic, asian, other, zero_division) ==
    LET values ==
            ("WhiteNonCollegeShare" :> non_college_white)
            @@ ("WhiteCollegeShare" :> college_white)
            @@ ("BlackShare" :> black)
            @@ ("HispanicShare" :> hispanic)
            @@ ("AsianShare" :> asian)
            @@ ("OtherShare" :> other)
        sliders ==
            ("WhiteNonCollegeShare" :> sanitize_value(non_college_white))
            @@ ("WhiteCollegeShare" :> sanitize_value(college_white))
            @@ ("BlackShare" :> sanitize_value(black))
            @@ ("HispanicShare" :> sanitize_value(hispanic))
            @@ ("AsianShare" :> sanitize_value(asian))
            @@ ("OtherShare" :> sanitize_value(other))
        margin_shifts == StateMarginShifts(sliders)
        df == WithWinners(
                  SwingTable(heap["df_states"],
                             MkArgs(margin_shifts, EmptyDict, EmptyDict,
                                    DefaultMaxMarginPoints)))
        pop == PopularVote(sliders, zero_division)
        ec_vote_totals == EcVoteTotals(df)
    IN  IF pop.error
        THEN \* lines 273-275: the except branch, nothing is shown
             [NoUi EXCEPT !.called = TRUE, !.error = TRUE, !.values = values,
                          !.margin_shifts = margin_shifts]
        ELSE [called |-> TRUE, error |-> FALSE, values |-> values,
              margin_shifts |-> margin_shifts,
              df |-> df, ec_vote_totals |-> ec_vote_totals,
              obama_ec_votes |-> Get(ec_vote_totals, "Obama", 0),
              mccain_ec_votes |-> Get(ec_vote_totals, "McCain", 0),
              obama_pop_vote |-> pop.shares[1], mccain_pop_vote |-> pop.shares[2],
              third_party_pop_vote |-> pop.shares[3]]

\* one firing of the callback
UpdateResults ==
    /\ ~ui.called
    /\ \E non_college_white \in SliderChoices("WhiteNonCollegeShare"),
          college_white \in SliderChoices("WhiteCollegeShare"),
          black \in SliderChoices("BlackShare"),
          hispanic \in SliderChoices("HispanicShare"),
          asian \in SliderChoices("AsianShare"),
          other \in SliderChoices("OtherShare"),
          zero_division \in {"raise", "nan"} :
        ui' = Results(non_college_white, college_white, black, hispanic, asian, other,
                      zero_division)
    /\ UNCHANGED <<heap, baseline, ret, args, noted, probe, original_margins, df_national,
                   built>>

\* the exit poll's margins, in points
ExitPollMargins ==
    { NoMargins,
      ("WhiteNonCollegeShare" :> -18) @@ ("WhiteCollegeShare" :> -4) @@ ("BlackShare" :> 91)
        @@ ("HispanicShare" :> 36) @@ ("AsianShare" :> 27) @@ ("OtherShare" :> 35) }

InitApp == InitWith(CallTables, ExitPollMargins, NationalTables)

NextApp == UpdateResults

SpecApp == InitApp /\ [][NextApp]_vars

(***************************************************************************)
(* The callback over several national rows (specification SpecNational).   *)
(***************************************************************************)
\* <<BaselineObama, BaselineMcCain, BaselineThird>> of the exit poll's Total row
NationalBaselines ==
    { <<Q(53, 100), Q(23, 50), Q(1, 100)>>,
      <<Zero, Zero, Zero>>,
      <<Zero, Zero, Q(1, 2)>>,
      <<One, Zero, Zero>>,
      <<Q(1, 10), Q(4, 5), Zero>> }

\* the six group shares of the national demographics
NationalGroupShares ==
    { ("WhiteNonCollegeShare" :> Q(2, 5)) @@ ("WhiteCollegeShare" :> Q(7, 20))
        @@ ("BlackShare" :> Q(1, 8)) @@ ("HispanicShare" :> Q(1, 10))
        @@ ("AsianShare" :> Q(1, 50)) @@ ("OtherShare" :> Q(1, 40)),
      ("WhiteNonCollegeShare" :> Q(2, 5)) @@ ("BlackShare" :> Q(1, 10)) @@ NoGroups,
      NoGroups }

MkNational(b, sh) ==
    <<("State" :> "NATIONAL") @@ ("MaleShare" :> Q(1, 2)) @@ ("FemaleShare" :> Q(1, 2))
      @@ ("BaselineObama" :> b[1]) @@ ("BaselineMcCain" :> b[2])
      @@ ("BaselineThird" :> b[3]) @@ sh>>

ManyNationalTables == { MkNational(b, sh) : b \in NationalBaselines, sh \in NationalGroupShares }

InitNational ==
    InitWith({<<MkRow(StateName(1), <<Q(1, 2), Q(12, 25), Q(1, 50)>>,
                      ("WhiteNonCollegeShare" :> Q(3, 5)) @@ ("BlackShare" :> Q(2, 5))
                         @@ NoGroups, 10)>>},
             ExitPollMargins, ManyNationalTables)

NextNational == UpdateResults

SpecNational == InitNational /\ [][NextNational]_vars

(***************************************************************************)
(* The table builders (specification SpecBuild). A file, and a DataFrame   *)
(* read from it, is [columns, rows]: the column names in order and the     *)
(* rows, each a function from the column names to values.                  *)
(***************************************************************************)
\* lines 320-367: DataFrame.rename(columns=...) of construct_df_states, for the
\* columns of both files (a name that is not in the map is kept)
StateRename(c) ==
    CASE c = "STATE" -> "State"
      [] c = "Black_Percentage" -> "BlackShare"
      [] c = "Hispanic_Percentage" -> "HispanicShare"
      [] c = "Asian_Percentage" -> "AsianShare"
      [] c = "Other_Percentage" -> "OtherShare"
      [] c = "White_Non_College_Percentage" -> "WhiteNonCollegeShare"
      [] c = "White_College_Percentage" -> "WhiteCollegeShare"
      [] c = "Male_Percentage" -> "MaleShare"
      [] c = "Female_Percentage" -> "FemaleShare"
      [] c = "18-24_Percentage" -> "Age18_24Share"
      [] c = "25-29_Percentage" -> "Age25_29Share"
      [] c = "30-39_Percentage" -> "Age30_39Share"
      [] c = "40-49_Percentage" -> "Age40_49Share"
      [] c = "50-64_Percentage" -> "Age50_64Share"
      [] c = "65+_Percentage" -> "Age65PlusShare"
      [] c = "Not_a_veteran_Percentage" -> "NotVetShare"
      [] c = "Veteran_Percentage" -> "VetShare"
      [] c = "Under_15000_Percentage" -> "Under15kShare"
      [] c = "15000-30000_Percentage" -> "k15_30Share"
      [] c = "30000-50000_Percentage" -> "k30_50Share"
      [] c = "50000-75000_Percentage" -> "k50_75Share"
      [] c = "75000-100000_Percentage" -> "k75_100Share"
      [] c = "100000-150000_Percentage" -> "k100_150Share"
      [] c = "150000-200000_Percentage" -> "k150_200Share"
      [] c = "Over_200000_Percentage" -> "Over200kShare"
      [] c = "OBAMA" -> "BaselineObama"
      [] c = "MCCAIN" -> "BaselineMcCain"
      [] c = "THIRDPARTY" -> "BaselineThird"
      [] OTHER -> c

\* lines 212-222: the rename map of construct_national_df
NationalRename(c) ==
    CASE c = "Asian/Pacific Islander" -> "AsianShare"
      [] c = "Black/African American" -> "BlackShare"
      [] c = "Hispanic/Latino" -> "HispanicShare"
      [] c = "Other" -> "OtherShare"
      [] c = "College_White" -> "WhiteCollegeShare"
      [] c = "Noncollege_White" -> "WhiteNonCollegeShare"
      [] c = "Male" -> "MaleShare"
      [] c = "Female" -> "FemaleShare"
      [] OTHER -> c

\* the element of a sequence of distinct names that a rename takes to c
Renamed(columns, c, rename(_)) ==
    columns[CHOOSE i \in 1..Len(columns) : rename(columns[i]) = c]

SeqSet(q) == {q[i] : i \in 1..Len(q)}

RECURSIVE MapSeq(_, _)
\* f applied to each element of a sequence (f is a function)
MapSeq(q, f) == IF q = <<>> THEN <<>> ELSE <<f[Head(q)]>> \o MapSeq(Tail(q), f)

\* lines 225-228
required_cols ==
    <<"WhiteCollegeShare", "WhiteNonCollegeShare", "BlackShare", "HispanicShare",
      "AsianShare", "OtherShare", "MaleShare", "FemaleShare">>

\* lines 207-250: what construct_national_df does with a demographics file and
\* an exit poll (None, or its Subgroup/Obama/McCain/Other rows)
construct_national_df(demo, exit_poll) ==
    LET names == [c \in SeqSet(demo.columns) |-> NationalRename(c)]
        columns == MapSeq(demo.columns, names)
        missing_cols == SelectSeq(required_cols, LAMBDA col : col \notin SeqSet(columns))
        total_row == SelectSeq(exit_poll.rows, LAMBDA r : r["Subgroup"] = "Total")
        Row(r) == [c \in SeqSet(columns) \cup {"BaselineObama", "BaselineMcCain", "BaselineThird"} |->
                      CASE c = "BaselineObama" -> total_row[1]["Obama"]
                        [] c = "BaselineMcCain" -> total_row[1]["McCain"]
                        [] c = "BaselineThird" -> total_row[1]["Other"]
                        [] OTHER -> r[Renamed(demo.columns, c, NationalRename)]]
    IN  IF missing_cols # <<>>
        THEN [outcome |-> "ValueError", message |-> "Missing columns in national demographics",
              missing |-> missing_cols]
        ELSE IF exit_poll.none
        THEN [outcome |-> "ValueError", message |-> "Exit poll DataFrame is required.",
              missing |-> <<>>]
        ELSE IF total_row = <<>>
        THEN [outcome |-> "ValueError", message |-> "Exit poll 'Total' row is missing.",
              missing |-> <<>>]
        ELSE [outcome |-> "ok",
              columns |-> columns \o <<"BaselineObama", "BaselineMcCain", "BaselineThird">>,
              rows |-> [i \in 1..Len(demo.rows) |-> Row(demo.rows[i])]]

\* lines 316-397: what construct_df_states does with a demographics file and a
\* results file (whose State values are distinct, and which share no column
\* but State)
construct_df_states(demo, results) ==
    LET demo_names == [c \in SeqSet(demo.columns) |-> StateRename(c)]
        results_names == [c \in SeqSet(results.columns) |-> StateRename(c)]
        demo_columns == MapSeq(demo.columns, demo_names)
        results_columns == MapSeq(results.columns, results_names)
        DemoRow(r) == [c \in SeqSet(demo_columns) |-> r[Renamed(demo.columns, c, StateRename)]]
        ResultsRow(r) == [c \in SeqSet(results_columns) |->
                             r[Renamed(results.columns, c, StateRename)]]
        df_demo == [i \in 1..Len(demo.rows) |-> DemoRow(demo.rows[i])]
        df_results == [i \in 1..Len(results.rows) |-> ResultsRow(results.rows[i])]
        \* pd.merge(df_demo, df_results, on="State", how="inner")
        Matches(d) == SelectSeq(df_results, LAMBDA r : r["State"] = d["State"])
        matched == SelectSeq(df_demo, LAMBDA d : Matches(d) # <<>>)
        df_merged == [i \in 1..Len(matched) |-> matched[i] @@ Matches(matched[i])[1]]
        merged_columns == SeqSet(demo_columns) \cup SeqSet(results_columns)
        kept == SelectSeq(keep_cols, LAMBDA c : c \in merged_columns)
    IN  IF "State" \notin SeqSet(demo_columns) \/ "State" \notin SeqSet(results_columns)
        THEN \* pd.merge raises KeyError('State')
             [outcome |-> "KeyError", message |-> "State", missing |-> <<"State">>]
        ELSE [outcome |-> "ok", columns |-> kept,
              rows |-> [i \in 1..Len(df_merged) |-> [c \in SeqSet(kept) |-> df_merged[i][c]]]]

\* a file with the given columns and one row per key, every other cell v
MkFile(columns, key, keys, v) ==
    [columns |-> columns,
     rows |-> [i \in 1..Len(keys) |->
                 [c \in SeqSet(columns) |-> IF c = key THEN keys[i] ELSE v]]]

StateDemoColumns ==
    <<"STATE", "White_College_Percentage", "White_Non_College_Percentage",
      "Black_Percentage", "Hispanic_Percentage", "Asian_Percentage", "Other_Percentage",
      "Male_Percentage", "Female_Percentage", "18-24_Percentage">>

StateResultsColumns == <<"STATE", "OBAMA", "MCCAIN", "THIRDPARTY", "EV">>

NationalDemoColumns ==
    <<"Noncollege_White", "College_White", "Black/African American", "Hispanic/Latino",
      "Asian/Pacific Islander", "Other", "Male", "Female">>

\* the files explored: the full column list less any of a few columns
Without(columns, dropped) == SelectSeq(columns, LAMBDA c : c \notin dropped)

StateDemoFiles ==
    { MkFile(Without(StateDemoColumns, d), "STATE", <<"AL", "AK">>, Q(1, 6)) :
        d \in SUBSET {"Black_Percentage", "Asian_Percentage", "Male_Percentage",
                      "18-24_Percentage"}
              \cup {{"STATE"}} }

StateResultsFiles ==
    { MkFile(Without(StateResultsColumns, d), "STATE", <<"AL", "AZ">>, Q(1, 3)) :
        d \in SUBSET {"THIRDPARTY", "EV"} \cup {{"STATE"}} }

NationalDemoFiles ==
    { MkFile(Without(NationalDemoColumns, d), "", <<"">>, Q(1, 6)) :
        d \in SUBSET {"Black/African American", "Other", "Male"} }

ExitPollColumns == <<"Subgroup", "Obama", "McCain", "Other">>

ExitPolls ==
    { [none |-> TRUE, columns |-> <<>>, rows |-> <<>>],
      [none |-> FALSE] @@ MkFile(ExitPollColumns, "Subgroup", <<"Total", "Black">>, Q(1, 2)),
      [none |-> FALSE] @@ MkFile(ExitPollColumns, "Subgroup", <<"White", "Black">>, Q(1, 2)) }

BuildStates ==
    /\ \E demo \in StateDemoFiles, results \in StateResultsFiles :
          built' = [kind |-> "states", demo |-> demo, results |-> results,
                    result |-> construct_df_states(demo, results)]
    /\ UNCHANGED <<heap, baseline, ret, args, noted, probe, original_margins, df_national, ui>>

BuildNational ==
    /\ \E demo \in NationalDemoFiles, exit_poll \in ExitPolls :
          built' = [kind |-> "national", demo |-> demo, exit_poll |-> exit_poll,
                    result |-> construct_national_df(demo, exit_poll)]
    /\ UNCHANGED <<heap, baseline, ret, args, noted, probe, original_margins, df_national, ui>>

InitBuild ==
    InitWith({<<MkRow(StateName(1), <<Q(1, 2), Q(12, 25), Q(1, 50)>>, NoGroups, 10)>>},
             {NoMargins}, NationalTables)

NextBuild == BuildStates \/ BuildNational

SpecBuild == InitBuild /\ [][NextBuild]_vars

(***************************************************************************)
(* Properties of one call of the engine (specification Spec).              *)
(***************************************************************************)
Rows(table) == 1..Len(table)

InUnit(x) == Le(Zero, x) /\ Le(x, One)

\* the sum of a row's group shares
ShareSum(row) ==
    LET Share(c) == row[c] IN SumOver(group_cols(row), Share, Zero)

\* the sum of a row's group shares after the turnout shift and the cap, before
\* any re-normalisation
ShiftedSum(row, turnout_shifts) ==
    LET Shifted(c) == ShiftedShare(row[c], Get(turnout_shifts, c, Zero))
    IN  SumOver(group_cols(row), Shifted, Zero)

IsZeroMap(d) == \A k \in DOMAIN d : d[k] = Zero

\* the third-party share of step 6, before the clamp, read off a returned row
ThirdCandidate(out) ==
    IF "ThirdPartyDelta" \in DOMAIN out
    THEN Add(out["BaselineThird"], out["ThirdPartyDelta"])
    ELSE out["BaselineThird"]

\* the returned row took the fallback of step 7
TookFallback(out) == Degenerate(out["Obama2p"], out["McCain2p"], ThirdCandidate(out))

\* C1: in every row the engine returns, FinalObama + FinalMcCain + FinalThird = 1,
\* whatever the shifts, the fallback rows included.
C1_FinalSharesSumToOne ==
    Returned =>
        \A i \in Rows(Out) :
            Add(Add(Out[i]["FinalObama"], Out[i]["FinalMcCain"]), Out[i]["FinalThird"]) = One

\* a call with margin, turnout and third-party shifts all given, one row of
\* which took the fallback and the three shares of which sum to 1
C1_Witness ==
    /\ Returned
    /\ args.margin_shifts # EmptyDict
    /\ args.turnout_shifts # EmptyDict
    /\ args.third_party_shifts # EmptyDict
    /\ \E i \in Rows(Out) :
          /\ TookFallback(Out[i])
          /\ Gt(Out[i]["TwoPartySum"], Zero)
          /\ Out[i]["FinalObama"] = Half /\ Out[i]["FinalMcCain"] = Half
          /\ Out[i]["FinalThird"] = Zero

\* C2: with baseline and group shares in [0,1], no share the engine returns is
\* negative: every post-turnout group share and every final share is in [0,1],
\* for any turnout shift, those below -1 included.
C2_NoShareOutsideUnit ==
    Returned =>
        \A i \in Rows(Out) :
            (/\ \A c \in DOMAIN baseline[i] : EndsWithShare(c) => InUnit(baseline[i][c])
             /\ InUnit(baseline[i]["BaselineObama"])
             /\ InUnit(baseline[i]["BaselineMcCain"])
             /\ InUnit(baseline[i]["BaselineThird"]))
            => /\ \A c \in DOMAIN baseline[i] : EndsWithShare(c) => InUnit(Out[i][c])
               /\ InUnit(Out[i]["FinalObama"])
               /\ InUnit(Out[i]["FinalMcCain"])
               /\ InUnit(Out[i]["FinalThird"])

\* C3 as stated: a row whose group shares sum to more than 0 before the turnout
\* shift has group shares summing to 1 in the returned row, for any turnout-shift
\* map. It is stated here for the maps whose shifts are all -1 or more, which
\* make no share negative: the statement already fails there.
C3_NormalizedWhenPreShiftSumPositive ==
    (Returned /\ \A c \in DOMAIN args.turnout_shifts : Le(Neg(One), args.turnout_shifts[c])) =>
        \A i \in Rows(Out) :
            Gt(ShareSum(baseline[i]), Zero) => ShareSum(Out[i]) = One

\* C3 as amended: a row whose group shares sum to more than 0 after the turnout
\* shift and the 1.0 cap has group shares summing to 1 in the returned row.
C3_NormalizedWhenShiftedSumPositive ==
    Returned =>
        \A i \in Rows(Out) :
            Gt(ShiftedSum(baseline[i], args.turnout_shifts), Zero) => ShareSum(Out[i]) = One

\* a turnout shift moved a row's share sum to a positive value other than 1, and
\* the returned shares sum to 1
C3_Witness ==
    /\ Returned
    /\ \E i \in Rows(Out) :
          /\ ShareSum(baseline[i]) = One
          /\ Gt(ShiftedSum(baseline[i], args.turnout_shifts), Zero)
          /\ ShiftedSum(baseline[i], args.turnout_shifts) # One
          /\ \E c \in DOMAIN args.turnout_shifts : Lt(args.turnout_shifts[c], Zero)
          /\ ShareSum(Out[i]) = One

ZeroShiftCall ==
    /\ Returned
    /\ IsZeroMap(args.margin_shifts)
    /\ IsZeroMap(args.turnout_shifts)
    /\ args.third_party_shifts = EmptyDict
    /\ Le(One, args.max_margin_points)

ZeroShiftNoOp(in, out) ==
    /\ out["FinalMargin"] = Sub(in["BaselineObama"], in["BaselineMcCain"])
    /\ out["FinalObama"] = Div(Add(out["TwoPartySum"], out["FinalMargin"]), Two)
    /\ out["FinalMcCain"] = Div(Sub(out["TwoPartySum"], out["FinalMargin"]), Two)
    /\ out["FinalObama"] = in["BaselineObama"]
    /\ out["FinalMcCain"] = in["BaselineMcCain"]

\* C4 as stated: with all shifts zero (and max_margin_points at least 1), every row with baseline shares in [0,1]
\* (summing to 1 or not) comes back with FinalMargin = BaselineObama -
\* BaselineMcCain and with FinalObama, FinalMcCain the two-party-split values
\* (TwoPartySum +/- margin)/2, the baseline shares.
C4_ZeroShiftIsNoOp ==
    ZeroShiftCall =>
        \A i \in Rows(Out) :
            (/\ InUnit(baseline[i]["BaselineObama"])
             /\ InUnit(baseline[i]["BaselineMcCain"])
             /\ InUnit(baseline[i]["BaselineThird"]))
            => ZeroShiftNoOp(baseline[i], Out[i])

BaselineSumsToOne(row) ==
    Add(Add(row["BaselineObama"], row["BaselineMcCain"]), row["BaselineThird"]) = One

\* C4 as amended: with all margin and turnout shifts zero, no third-party
\* shift map and max_margin_points at least 1, every row with baseline shares in [0,1] that sum to exactly 1
\* comes back with FinalMargin = BaselineObama - BaselineMcCain and with
\* FinalObama, FinalMcCain the two-party-split values, the baseline shares.
C4_ZeroShiftIsNoOpWhenBaselineSumsToOne ==
    ZeroShiftCall =>
        \A i \in Rows(Out) :
            (/\ InUnit(baseline[i]["BaselineObama"])
             /\ InUnit(baseline[i]["BaselineMcCain"])
             /\ InUnit(baseline[i]["BaselineThird"])
             /\ BaselineSumsToOne(baseline[i]))
            => ZeroShiftNoOp(baseline[i], Out[i])

\* a zero-shift call on a row with a third-party share and unequal major shares
\* that sum to 1, returned unchanged
C4_Witness ==
    /\ ZeroShiftCall
    /\ \E i \in Rows(Out) :
          /\ BaselineSumsToOne(baseline[i])
          /\ Gt(baseline[i]["BaselineThird"], Zero)
          /\ baseline[i]["BaselineObama"] # baseline[i]["BaselineMcCain"]
          /\ ZeroShiftNoOp(baseline[i], Out[i])

AbsQ(x) == IF Lt(x, Zero) THEN Neg(x) ELSE x

\* C5: in every returned row |FinalObama - FinalMcCain| <= 1 - FinalThird, for
\* any size of margin shift.
C5_MarginWithinTwoPartyShare ==
    Returned =>
        \A i \in Rows(Out) :
            Le(AbsQ(Sub(Out[i]["FinalObama"], Out[i]["FinalMcCain"])),
               Sub(One, Out[i]["FinalThird"]))

\* a margin shift took the new margin beyond what the third party leaves, and
\* the final margin is exactly what it leaves
C5_Witness ==
    /\ Returned
    /\ \E i \in Rows(Out) :
          /\ ~TookFallback(Out[i])
          /\ Gt(AbsQ(Out[i]["MarginShift"]), One)
          /\ Gt(AbsQ(Out[i]["NewMargin"]), Sub(One, Out[i]["FinalThird"]))
          /\ Gt(Out[i]["FinalThird"], Zero)
          /\ AbsQ(Out[i]["FinalMargin"]) = Sub(One, Out[i]["FinalThird"])

\* C7: the Winner the engine sets is the three-way tie-break rule applied to the
\* final shares; it agrees with calculate_winner on every row.
C7_EngineWinnerIsTieBreakRule ==
    Returned =>
        \A i \in Rows(Out) : Out[i]["Winner"] = calculate_winner(Out[i])

ScenarioRow(row) ==
    /\ row["BaselineObama"] = Q(1, 2)
    /\ row["BaselineMcCain"] = Q(12, 25)
    /\ row["BaselineThird"] = Q(1, 50)
    /\ \A c \in DOMAIN row :
          EndsWithShare(c) =>
             row[c] = (CASE c = "WhiteNonCollegeShare" -> Q(3, 5)
                         [] c = "BlackShare" -> Q(2, 5)
                         [] OTHER -> Zero)
    /\ {c \in DOMAIN row : EndsWithShare(c)} = G

ScenarioArgs ==
    MkArgs("BlackShare" :> Q(10, 1), EmptyDict, EmptyDict, DefaultMaxMarginPoints)

\* C8: the scenario row (0.50 / 0.48 / 0.02, WhiteNonCollege 0.6, Black 0.4)
\* with marginShifts = {BlackShare: 10} and no other shift comes back with new
\* margin 0.06, FinalObama 0.52, FinalMcCain 0.46, FinalThird 0.02, winner Obama.
C8_EndToEndScenario ==
    (Returned /\ args = ScenarioArgs) =>
        \A i \in Rows(Out) :
            ScenarioRow(baseline[i]) =>
                /\ Out[i]["NewMargin"] = Q(3, 50)
                /\ Out[i]["FinalMargin"] = Q(3, 50)
                /\ Out[i]["FinalObama"] = Q(13, 25)
                /\ Out[i]["FinalMcCain"] = Q(23, 50)
                /\ Out[i]["FinalThird"] = Q(1, 50)
                /\ Out[i]["Winner"] = "Obama"

(***************************************************************************)
(* Properties of the winner functions (specification SpecWinner).          *)
(***************************************************************************)
BothResolveTo(w) == probe.calculate_winner = w /\ probe.check_state_winner = w

\* C6 as stated: the winner functions resolve a row with FinalObama =
\* FinalMcCain = FinalThird to ThirdParty, and a row with FinalThird =
\* FinalObama > FinalMcCain to Obama.
C6_TieBreakAsStated ==
    probe.set =>
        /\ (probe.row.FinalObama = probe.row.FinalMcCain
            /\ probe.row.FinalMcCain = probe.row.FinalThird) => BothResolveTo("ThirdParty")
        /\ (probe.row.FinalThird = probe.row.FinalObama
            /\ Gt(probe.row.FinalObama, probe.row.FinalMcCain)) => BothResolveTo("Obama")

\* C6 as amended: the winner functions resolve a row with FinalObama =
\* FinalMcCain = FinalThird to ThirdParty, and a row with FinalThird =
\* FinalObama > FinalMcCain to ThirdParty as well.
C6_ThirdPartyWinsItsTies ==
    probe.set =>
        /\ (probe.row.FinalObama = probe.row.FinalMcCain
            /\ probe.row.FinalMcCain = probe.row.FinalThird) => BothResolveTo("ThirdParty")
        /\ (probe.row.FinalThird = probe.row.FinalObama
            /\ Gt(probe.row.FinalObama, probe.row.FinalMcCain)) => BothResolveTo("ThirdParty")

\* a row with FinalThird = FinalObama > FinalMcCain, resolved to ThirdParty
C6_Witness ==
    /\ probe.set
    /\ probe.row.FinalThird = probe.row.FinalObama
    /\ Gt(probe.row.FinalObama, probe.row.FinalMcCain)
    /\ Gt(probe.row.FinalMcCain, Zero)
    /\ BothResolveTo("ThirdParty")

(***************************************************************************)
(* Properties of repeated calls (specification SpecCalls).                 *)
(***************************************************************************)
\* C9: every call leaves the baseline rows as they were, and a call's output
\* depends on its arguments only: a call with the arguments of a noted earlier
\* call returns the noted output, whatever was called in between.
C9_CallsDoNotInterfere ==
    /\ heap["df_states"] = baseline
    /\ (Returned /\ noted.set /\ noted.args = args) => Out = noted.out

\* a call with turnout and third-party shifts was noted, a call with other
\* arguments followed, and the noted call was made again with the same output
C9_Witness ==
    /\ Returned
    /\ noted.set
    /\ noted.between
    /\ noted.args = args
    /\ args.turnout_shifts # EmptyDict
    /\ args.third_party_shifts # EmptyDict
    /\ Len(Out) > 1
    /\ Out = noted.out
    /\ heap["df_states"] = baseline

(***************************************************************************)
(* Properties of the callback (specification SpecApp).                     *)
(***************************************************************************)
Candidates == {"Obama", "McCain", "ThirdParty"}

RECURSIVE SumOfEV(_, _)
\* the sum of EV over a set of row numbers of a table
SumOfEV(df, S) ==
    IF S = {} THEN 0
    ELSE LET i == CHOOSE j \in S : TRUE
         IN  df[i]["EV"] + SumOfEV(df, S \ {i})

WonBy(df, w) == {i \in 1..Len(df) : df[i]["Winner"] = w}

\* C10: the electoral aggregation gives each candidate the sum of EV over
\* exactly the rows that candidate won, and 0 to a candidate who won no row.
C10_ElectoralTotalsPerWinner ==
    ui.called =>
        /\ \A w \in Candidates :
              Get(ui.ec_vote_totals, w, 0) = SumOfEV(ui.df, WonBy(ui.df, w))
        /\ \A w \in Candidates : WonBy(ui.df, w) = {} => Get(ui.ec_vote_totals, w, 0) = 0
        /\ ui.obama_ec_votes = SumOfEV(ui.df, WonBy(ui.df, "Obama"))
        /\ ui.mccain_ec_votes = SumOfEV(ui.df, WonBy(ui.df, "McCain"))

\* the two-row scenario: Obama wins a row of 10 votes, McCain a row of 15, the
\* third party none
C10_Witness ==
    /\ ui.called
    /\ Len(ui.df) = 2
    /\ ui.df[1]["Winner"] = "Obama" /\ ui.df[1]["EV"] = 10
    /\ ui.df[2]["Winner"] = "McCain" /\ ui.df[2]["EV"] = 15
    /\ ui.obama_ec_votes = 10
    /\ ui.mccain_ec_votes = 15
    /\ "ThirdParty" \notin DOMAIN ui.ec_vote_totals
    /\ Get(ui.ec_vote_totals, "ThirdParty", 0) = 0

(***************************************************************************)
(* Properties of the national projection (specification SpecNational).     *)
(***************************************************************************)
\* the national row's three baseline shares are in [0,1] and not all zero
NationalBaselineUsable ==
    LET n == df_national[1]
    IN  /\ InUnit(n["BaselineObama"]) /\ InUnit(n["BaselineMcCain"])
        /\ InUnit(n["BaselineThird"])
        /\ ~(n["BaselineObama"] = Zero /\ n["BaselineMcCain"] = Zero
              /\ n["BaselineThird"] = Zero)

\* the sum of the national row's six group shares
NationalGroupSum ==
    LET n == df_national[1]
    IN  Add(Add(Add(n["WhiteNonCollegeShare"], n["WhiteCollegeShare"]),
                Add(n["BlackShare"], n["HispanicShare"])),
            Add(n["AsianShare"], n["OtherShare"]))

\* the slider value the callback works with: the value sent, 0 for None
SentValue(g) == IF ui.values[g].kind = "num" THEN ui.values[g].v ELSE Zero

\* slider minus original margin, held to [-100, 100], as a fraction of the
\* national scale (/2, then /100)
NationalShift(g) ==
    LET d == Sub(SentValue(g), IntQ(original_margins[g]))
        held == IF Lt(d, IntQ(-100)) THEN IntQ(-100)
                ELSE IF Gt(d, IntQ(100)) THEN IntQ(100) ELSE d
    IN  Div(held, IntQ(200))

\* the sum over the six groups of shift times group share
WeightedShiftTimesSum ==
    LET n == df_national[1]
        T(g) == Mul(NationalShift(g), n[g])
    IN  Add(Add(Add(T("WhiteNonCollegeShare"), T("WhiteCollegeShare")),
                Add(T("BlackShare"), T("HispanicShare"))),
            Add(T("AsianShare"), T("OtherShare")))

\* the popular vote shown is the one the weighted, clamped, renormalised
\* projection gives
ProjectionAsSpecified ==
    LET n == df_national[1]
        delta == Div(WeightedShiftTimesSum, NationalGroupSum)
        o == Clip(Add(n["BaselineObama"], delta), Zero, One)
        m == Clip(Sub(n["BaselineMcCain"], delta), Zero, One)
        t == Clip(n["BaselineThird"], Zero, One)
        total == Add(Add(o, m), t)
    IN  /\ Mul(ui.obama_pop_vote, total) = o
        /\ Mul(ui.mccain_pop_vote, total) = m
        /\ Mul(ui.third_party_pop_vote, total) = t

PopularVoteIsADistribution ==
    /\ ~ui.error
    /\ InUnit(ui.obama_pop_vote) /\ InUnit(ui.mccain_pop_vote)
    /\ InUnit(ui.third_party_pop_vote)
    /\ Add(Add(ui.obama_pop_vote, ui.mccain_pop_vote), ui.third_party_pop_vote) = One

C12_NullSliderIsZeroShift ==
    ui.called =>
        \A g \in G :
            ui.values[g] = NoneValue =>
                /\ ui.margin_shifts[g] = Zero
                /\ ui.margin_shifts[g]
                      = SliderShift(IntQ(original_margins[g]), original_margins[g], IntQ(20))

(***************************************************************************)
(* Properties of the table builders (specification SpecBuild).             *)
(***************************************************************************)
\* the canonical fields a state row must carry
RequiredStateFields ==
    <<"State", "WhiteCollegeShare", "WhiteNonCollegeShare", "BlackShare", "HispanicShare",
      "AsianShare", "OtherShare", "BaselineObama", "BaselineMcCain", "BaselineThird", "EV">>

\* the canonical fields a national row must carry from its file
RequiredNationalFields ==
    <<"WhiteCollegeShare", "WhiteNonCollegeShare", "BlackShare", "HispanicShare",
      "AsianShare", "OtherShare", "MaleShare", "FemaleShare">>

\* the canonical names of the columns of the files handed to the builder
CanonicalColumnsGiven ==
    IF built.kind = "states"
    THEN {StateRename(c) : c \in SeqSet(built.demo.columns) \cup SeqSet(built.results.columns)}
    ELSE {NationalRename(c) : c \in SeqSet(built.demo.columns)}

MissingFields(required) == SelectSeq(required, LAMBDA c : c \notin CanonicalColumnsGiven)

\* the builder failed with an error that lists exactly the missing fields
FailedListing(missing) ==
    /\ built.result.outcome # "ok"
    /\ SeqSet(built.result.missing) = SeqSet(missing)

BuilderContract(required) ==
    /\ MissingFields(required) # <<>> => FailedListing(MissingFields(required))
    /\ built.result.outcome = "ok" =>
          /\ SeqSet(required) \subseteq SeqSet(built.result.columns)
          /\ \A i \in 1..Len(built.result.rows) :
                SeqSet(required) \subseteq DOMAIN built.result.rows[i]

\* the national builder's half of C13: a missing required column is an error
\* listing it, a missing Total record (or no exit poll) is an error, and a
\* table returned has every required field and the three baseline shares
NationalBuilderContract ==
    built.kind = "national" =>
        /\ BuilderContract(RequiredNationalFields)
        /\ (\A i \in 1..Len(built.exit_poll.rows) :
               built.exit_poll.rows[i]["Subgroup"] # "Total")
              => built.result.outcome = "ValueError"
        /\ built.result.outcome = "ok" =>
              {"BaselineObama", "BaselineMcCain", "BaselineThird"}
                  \subseteq SeqSet(built.result.columns)

\* C13: each table builder fails with an error listing the missing fields
\* whenever a required canonical column is absent after renaming, and never
\* returns a table lacking a required field; the national builder also fails
\* when the exit poll has no Total record.
C13_BuildersFailOnMissingColumns ==
    /\ built.kind = "states" => BuilderContract(RequiredStateFields)
    /\ NationalBuilderContract

(***************************************************************************)
(* Properties of step 7 (specification Spec).                              *)
(***************************************************************************)
\* x held to [-bound, +bound]
Within(x, bound) ==
    IF Gt(x, bound) THEN bound ELSE IF Lt(x, Neg(bound)) THEN Neg(bound) ELSE x

\* the third-party candidate share of a returned row, clamped to [0,1]
FinalThirdOf(out) ==
    LET t == ThirdCandidate(out)
    IN  IF Lt(t, Zero) THEN Zero ELSE IF Gt(t, One) THEN One ELSE t

IsFallbackOutput(out) ==
    out["FinalObama"] = Half /\ out["FinalMcCain"] = Half /\ out["FinalThird"] = Zero

\* FinalObama = (remaining + newMargin)/2, FinalMcCain = (remaining - newMargin)/2,
\* FinalThird = finalThird, newMargin being held to +/- remaining
IsRegularOutput(out) ==
    LET finalThird == FinalThirdOf(out)
        remaining == Sub(One, finalThird)
        newMargin == Within(out["NewMargin"], remaining)
    IN  /\ out["FinalObama"] = Div(Add(remaining, newMargin), Two)
        /\ out["FinalMcCain"] = Div(Sub(remaining, newMargin), Two)
        /\ out["FinalThird"] = finalThird

\* C14 as stated: the fallback 0.5 / 0.5 / 0.0 is emitted for a row exactly when
\* remaining + finalThird <= 0 (finalThird the clamped third-party candidate,
\* remaining = 1 - finalThird); every other row gets the regular output.
C14_FallbackWhenRemainingPlusThirdNonPositive ==
    Returned =>
        \A i \in Rows(Out) :
            LET finalThird == FinalThirdOf(Out[i])
                remaining == Sub(One, finalThird)
            IN  IF Le(Add(remaining, finalThird), Zero)
                THEN IsFallbackOutput(Out[i])
                ELSE IsRegularOutput(Out[i])

\* C14 as amended: the fallback is emitted for a row exactly when TwoPartySum
\* (BaselineObama + BaselineMcCain) plus the third-party candidate share, not
\* yet clamped, is <= 0; every other row gets the regular output.
C14_FallbackWhenTotalNonPositive ==
    Returned =>
        \A i \in Rows(Out) :
            IF Le(Add(Add(baseline[i]["BaselineObama"], baseline[i]["BaselineMcCain"]),
                      ThirdCandidate(Out[i])), Zero)
            THEN IsFallbackOutput(Out[i])
            ELSE IsRegularOutput(Out[i])

\* a row with a positive two-party sum and a non-zero new margin whose
\* third-party candidate share a third-party shift took so far below zero that
\* the total is not positive: it got the fallback, which is not the regular output
C14_Witness ==
    /\ Returned
    /\ \E i \in Rows(Out) :
          /\ Gt(Add(baseline[i]["BaselineObama"], baseline[i]["BaselineMcCain"]), Zero)
          /\ Out[i]["NewMargin"] # Zero
          /\ Lt(ThirdCandidate(Out[i]), Zero)
          /\ Le(Add(Out[i]["TwoPartySum"], ThirdCandidate(Out[i])), Zero)
          /\ IsFallbackOutput(Out[i])
          /\ ~IsRegularOutput(Out[i])

(***************************************************************************)
(* Properties of the auxiliary share columns (specification Spec).         *)
(***************************************************************************)
\* the share columns of a row that are not among the six groups
AuxiliaryColumns(row) == {c \in DOMAIN row : EndsWithShare(c) /\ c \notin G}

\* the row without its auxiliary share columns
WithoutAuxiliary(row) == [c \in DOMAIN row \ AuxiliaryColumns(row) |-> row[c]]

\* C15: when a row also carries auxiliary share columns (Male/Female, ...), the
\* engine returns those columns unchanged, and the post-turnout shares of the
\* six groups and the final shares are those of the same call on the row
\* without the auxiliary columns.
C15_AuxiliaryColumnsNotConsumed ==
    Returned =>
        \A i \in Rows(Out) :
            AuxiliaryColumns(baseline[i]) # {} =>
                LET alone == SwingRow(WithoutAuxiliary(baseline[i]), args)
                IN  /\ \A c \in AuxiliaryColumns(baseline[i]) : Out[i][c] = baseline[i][c]
                    /\ \A g \in G : Out[i][g] = alone[g]
                    /\ Out[i]["FinalObama"] = alone["FinalObama"]
                    /\ Out[i]["FinalMcCain"] = alone["FinalMcCain"]
                    /\ Out[i]["FinalThird"] = alone["FinalThird"]

(***************************************************************************)
(* Properties of the final margin (specification Spec).                    *)
(***************************************************************************)
\* baselineMargin + the sum over the six groups of marginShifts.get(g, 0) times
\* the post-turnout share the row came back with
ShiftedMargin(in, out) ==
    LET T(g) == Mul(Get(args.margin_shifts, g, Zero), out[g])
    IN  Add(Sub(in["BaselineObama"], in["BaselineMcCain"]),
            Add(Add(Add(T("WhiteNonCollegeShare"), T("WhiteCollegeShare")),
                    Add(T("BlackShare"), T("HispanicShare"))),
                Add(T("AsianShare"), T("OtherShare"))))

SharesNonNegative(out) == \A c \in DOMAIN out : EndsWithShare(c) => Le(Zero, out[c])

\* C17: with turnout and third-party shifts (and max_margin_points) held fixed,
\* raising the margin shift of one group never lowers FinalMargin or FinalObama
\* and never raises FinalMcCain, in a row whose post-turnout group shares are
\* all non-negative.
C17_RaisingAShiftNeverLowersTheMargin ==
    (Returned /\ noted.set /\ noted.how = "raised") =>
        \A i \in Rows(Out) :
            SharesNonNegative(Out[i]) =>
                /\ Le(noted.out[i]["FinalMargin"], Out[i]["FinalMargin"])
                /\ Le(noted.out[i]["FinalObama"], Out[i]["FinalObama"])
                /\ Le(Out[i]["FinalMcCain"], noted.out[i]["FinalMcCain"])

\* a group's margin shift was raised, with turnout and third-party shifts in
\* place: in one row the final margin rose, Obama's share rose and McCain's fell
C17_Witness ==
    /\ Returned /\ noted.set /\ noted.how = "raised"
    /\ args.turnout_shifts # EmptyDict
    /\ args.third_party_shifts # EmptyDict
    /\ args.turnout_shifts = noted.args.turnout_shifts
    /\ args.third_party_shifts = noted.args.third_party_shifts
    /\ \E g \in G :
          /\ Gt(Get(args.margin_shifts, g, Zero), Get(noted.args.margin_shifts, g, Zero))
          /\ \A h \in G \ {g} :
                Get(args.margin_shifts, h, Zero) = Get(noted.args.margin_shifts, h, Zero)
    /\ \E i \in Rows(Out) :
          /\ SharesNonNegative(Out[i])
          /\ Lt(noted.out[i]["FinalMargin"], Out[i]["FinalMargin"])
          /\ Lt(noted.out[i]["FinalObama"], Out[i]["FinalObama"])
          /\ Lt(Out[i]["FinalMcCain"], noted.out[i]["FinalMcCain"])

\* the turnout shift every share column got in the last call
UniformShift == args.turnout_shifts["BlackShare"]

\* no share column of the row exceeds the 1.0 cap once shifted by t
NoShareCapped(row, t) ==
    \A c \in DOMAIN row : EndsWithShare(c) => Le(Mul(row[c], Add(One, t)), One)

SameSharesAndFinals(a, b) ==
    /\ \A c \in DOMAIN a : EndsWithShare(c) => a[c] = b[c]
    /\ a["FinalObama"] = b["FinalObama"]
    /\ a["FinalMcCain"] = b["FinalMcCain"]
    /\ a["FinalThird"] = b["FinalThird"]

\* C18: for a row with positive share sum, the same turnout shift t > -1 for
\* every group, no shifted share exceeding the 1.0 cap, gives the post-turnout
\* shares and the final shares of the call without any turnout shift.
C18_UniformTurnoutShiftIsNeutral ==
    (Returned /\ noted.set /\ noted.how = "turnout" /\ Gt(UniformShift, Neg(One))) =>
        \A i \in Rows(Out) :
            (Gt(ShareSum(baseline[i]), Zero) /\ NoShareCapped(baseline[i], UniformShift))
                => SameSharesAndFinals(Out[i], noted.out[i])

\* a uniform turnout shift other than 0 on a row whose shares do not sum to 1,
\* in a call with a margin shift that moved the margin: shares and final shares
\* are those of the call without turnout shift, and not the baseline shares
C18_Witness ==
    /\ Returned /\ noted.set /\ noted.how = "turnout"
    /\ Gt(UniformShift, Neg(One)) /\ UniformShift # Zero
    /\ noted.args.turnout_shifts = EmptyDict
    /\ args.margin_shifts = noted.args.margin_shifts
    /\ \E i \in Rows(Out) :
          /\ Gt(ShareSum(baseline[i]), Zero) /\ ShareSum(baseline[i]) # One
          /\ NoShareCapped(baseline[i], UniformShift)
          /\ Out[i]["MarginShift"] # Zero
          /\ Out[i]["BlackShare"] # baseline[i]["BlackShare"]
          /\ SameSharesAndFinals(Out[i], noted.out[i])

====
